---- MODULE Spec2Model ----
(***************************************************************************)
(* A model of IdentdTS, a client of the Ident Protocol (RFC 1413):         *)
(* src/src/identd/index.ts.                                                *)
(*                                                                         *)
(* Buffers and strings are sequences of numbers: a Buffer is a sequence of *)
(* bytes (0..255), a string a sequence of character codes.  JavaScript     *)
(* indexes from 0 and TLA+ from 1: the operators below return and take the *)
(* 0-based indexes of the source and shift on access.                      *)
(***************************************************************************)
EXTENDS Integers, Sequences, FiniteSets, TLC

VARIABLES
    options,     \* options[r]: the Options object of request r (a record; an absent key is an undefined field)
    called,      \* called[r]: request(options) has been called
    promise,     \* promise[r]: the promise request() returns: pending, fulfilled (value) or rejected (reason)
    sock,        \* sock[r]: the socket of request r: "none", "connecting", "open", "ended", "destroyed", "failed", "closed"
    connections, \* connections[r]: how many times net.createConnection was called
    written,     \* written[r]: what sock.write was given, in order
    data,        \* data[r]: the accumulated buffer `data` of the closure
    handed,      \* handed[r]: the buffers `res` given to parseResponse, in order
    stream,      \* stream[r]: the bytes the peer has sent and the socket has not yet delivered
    sockErr,     \* sockErr[r]: the error the socket's 'error' event carried, "none" before
    uncaught,    \* the exception thrown out of an onread callback that nothing catches, "none" before
    line,        \* the argument of a direct call of parseResponse or of isEOL
    parsed,      \* the outcome of that call of parseResponse
    eol          \* the outcome of that call of isEOL

vars == <<options, called, promise, sock, connections, written, data, handed,
          stream, sockErr, uncaught, line, parsed, eol>>

connVars == <<options, called, promise, sock, connections, written, data, handed,
              stream, sockErr, uncaught>>

(***************************************************************************)
(* Constants of class Identd.                                              *)
(***************************************************************************)
CR == 13
LF == 10
COLON == 58
EOL == <<13, 10>>
ABORT_CONNECTION_LENGTH == 1000
READ_BUFFER_LENGTH == 256
MAX_USERID_LENGTH == 512
MAX_TOKEN_LENGTH == 64

UNDEFINED_ADDRESS == "Undefined ip!"
UNDEFINED_SERVER_PORT == "Undefined server prot!"
UNDEFINED_LOCAL_PORT == "Undefined local port!"
INVALID_RESPONSE_LENGTH == "Invalid response length!"
INVALID_STATUS_RESPONSE == "Invalid status response!"
INVALID_OPSYS_RESPONSE == "Invalid opsys response!"
INVALID_CHARSET_RESPONSE == "Invalid charset response!"
INVALID_USERID_LENGTH == "Invalid userid length!"
INVALID_ERROR_TOKEN == "Invalid error token length!"
\* What JavaScript throws when iconv.decode is given undefined.
TYPE_ERROR == "TypeError"

(***************************************************************************)
(* Character strings of the protocol, as character codes.                  *)
(***************************************************************************)
USERID == <<85,83,69,82,73,68>>                                 \* "USERID"
ERROR == <<69,82,82,79,82>>                                     \* "ERROR"
OTHER_OPSYS == <<79,84,72,69,82>>                               \* "OTHER"
UNIX == <<85,78,73,88>>                                         \* "UNIX"
US_ASCII == <<85,83,45,65,83,67,73,73>>                         \* "US-ASCII"

\* lib/index.ts, ERROR_TOKENS.
ERROR_TOKENS ==
    { <<73,78,86,65,76,73,68,45,80,79,82,84>>,                  \* "INVALID-PORT"
      <<78,79,45,85,83,69,82>>,                                 \* "NO-USER"
      <<72,73,68,68,69,78,45,85,83,69,82>>,                     \* "HIDDEN-USER"
      <<85,78,75,78,79,87,78,45,69,82,82,79,82>> }              \* "UNKNOWN-ERROR"

\* lib/opsys.js is a table of the operating system names of RFC 1340; the
\* entries the replies of this model use.
OPSYS ==
    { UNIX,
      <<86,77,83>>,                                             \* "VMS"
      <<77,83,68,79,83>> }                                      \* "MSDOS"

\* lib/charset.js is a table of the character set names of RFC 1340; the
\* entries the replies of this model use.
CHARSETS ==
    { US_ASCII,
      <<73,83,79,45,56,56,53,57,45,49>> }                       \* "ISO-8859-1"

(***************************************************************************)
(* JavaScript values.                                                      *)
(***************************************************************************)
\* A number: parseInt returns an integer or NaN.
Number(n) == [nan |-> FALSE, val |-> n]
NaN == [nan |-> TRUE, val |-> 0]

\* The userid of a Response is a string, a Buffer or undefined.
JSString(s) == [type |-> "string", val |-> s]
JSBuffer(b) == [type |-> "Buffer", val |-> b]
JSUndefined == [type |-> "undefined", val |-> <<>>]

Min(S) == CHOOSE x \in S : \A y \in S : x <= y

\* Buffer.indexOf(byte) and String.indexOf(char): the first 0-based index, or -1.
IndexOf(buff, b) ==
    LET hits == {i \in 1..Len(buff) : buff[i] = b}
    IN  IF hits = {} THEN -1 ELSE Min(hits) - 1

\* Buffer.subarray(start, end) and String.substring: 0-based, end exclusive,
\* both clamped to the length; empty when start >= end.
Subarray(buff, start, end) ==
    LET e == IF end > Len(buff) THEN Len(buff) ELSE end
    IN  IF start >= e THEN <<>> ELSE SubSeq(buff, start + 1, e)

\* White space and line terminators, as String.prototype.trim and parseInt strip them.
IsWhiteSpace(c) ==
    c \in {9, 10, 11, 12, 13, 32, 160, 5760, 8232, 8233, 8239, 8287, 12288, 65279}
          \cup (8192..8202)

\* s from its first character that is not white space.
TrimStart(s) ==
    LET kept == {i \in 1..Len(s) : ~IsWhiteSpace(s[i])}
    IN  IF kept = {} THEN <<>> ELSE SubSeq(s, Min(kept), Len(s))

\* s up to its last character that is not white space.
TrimEnd(s) ==
    LET kept == {i \in 1..Len(s) : ~IsWhiteSpace(s[i])}
    IN  IF kept = {} THEN <<>>
        ELSE SubSeq(s, 1, CHOOSE i \in kept : \A j \in kept : j <= i)

\* String.prototype.trim.
Trim(s) == TrimEnd(TrimStart(s))

\* String.prototype.split(sep) for a one-character separator: every piece is
\* kept, the empty ones too, and the empty string splits to one empty piece.
RECURSIVE Split(_, _)
Split(s, sep) ==
    LET i == IndexOf(s, sep)
    IN  IF i = -1 THEN <<s>>
        ELSE <<Subarray(s, 0, i)>> \o Split(Subarray(s, i + 1, Len(s)), sep)

\* The value of a digit character in a radix, -1 when it is none.
DigitValue(c, radix) ==
    LET v == IF c \in 48..57 THEN c - 48
             ELSE IF c \in 97..122 THEN c - 97 + 10
             ELSE IF c \in 65..90 THEN c - 65 + 10
             ELSE -1
    IN  IF v < radix THEN v ELSE -1

\* The length of the longest prefix of s made of digits of the radix.
RECURSIVE DigitPrefix(_, _)
DigitPrefix(s, radix) ==
    IF s # <<>> /\ DigitValue(s[1], radix) # -1
    THEN 1 + DigitPrefix(Tail(s), radix)
    ELSE 0

RECURSIVE DigitsValue(_, _, _)
DigitsValue(s, radix, acc) ==
    IF s = <<>> THEN acc
    ELSE DigitsValue(Tail(s), radix, acc * radix + DigitValue(s[1], radix))

\* parseInt(string) with no radix: leading white space is skipped, then an
\* optional sign, an optional 0x, and the longest run of digits; NaN when
\* there is no digit.
parseInt(s) ==
    LET t == TrimStart(s)
        signed == t # <<>> /\ t[1] \in {43, 45}
        sign == IF t # <<>> /\ t[1] = 45 THEN -1 ELSE 1
        u == IF signed THEN Tail(t) ELSE t
        hex == Len(u) >= 2 /\ u[1] = 48 /\ u[2] \in {120, 88}
        radix == IF hex THEN 16 ELSE 10
        body == IF hex THEN Subarray(u, 2, Len(u)) ELSE u
        n == DigitPrefix(body, radix)
    IN  IF n = 0 THEN NaN
        ELSE Number(sign * DigitsValue(Subarray(body, 0, n), radix, 0))

\* String(n) of an integer, as a template literal renders it.
RECURSIVE ToDecimal(_)
ToDecimal(n) ==
    IF n < 0 THEN <<45>> \o ToDecimal(-n)
    ELSE IF n < 10 THEN <<48 + n>>
    ELSE ToDecimal(n \div 10) \o <<48 + (n % 10)>>

(***************************************************************************)
(* The pure functions of class Identd.                                     *)
(***************************************************************************)
\* isEOL that looks for the CR only.
isEOLAtCR(buff) == IndexOf(buff, CR)

\* isEOL: the index of the first CR when the first LF is the byte after it, else -1.
isEOL(buff) ==
    LET index == IndexOf(buff, CR)
    IN  IF index # -1 /\ IndexOf(buff, LF) - 1 = index THEN index ELSE -1

\* iconv.decode(buff, 'US-ASCII'): one character per byte, a byte that is not
\* ASCII decoding to U+FFFD.
defaultDecode(buff) ==
    [i \in 1..Len(buff) |-> IF buff[i] < 128 THEN buff[i] ELSE 65533]

\* splitBuffer: cut at every occurrence of char; what follows the last one is
\* pushed only when it is not empty.
RECURSIVE splitBuffer(_, _)
splitBuffer(buff, char) ==
    LET index == IndexOf(buff, char)
    IN  IF index # -1
        THEN <<Subarray(buff, 0, index)>>
                 \o splitBuffer(Subarray(buff, index + 1, Len(buff)), char)
        ELSE IF Len(buff) > 0 THEN <<buff>> ELSE <<>>

\* buildRequest without the space after the comma.
buildRequestNoSpace(server_port, client_port) ==
    ToDecimal(server_port) \o <<44>> \o ToDecimal(client_port) \o EOL

\* buildRequest: `${server_port}, ${client_port}${EOL}`.
buildRequest(server_port, client_port) ==
    ToDecimal(server_port) \o <<44, 32>> \o ToDecimal(client_port) \o EOL

isValidOS(opsys) == opsys = OTHER_OPSYS \/ opsys \in OPSYS

isValidCharset(charset) == charset \in CHARSETS

isValidUserID(userid) == Len(userid) > 0 /\ Len(userid) <= MAX_USERID_LENGTH

isValidErrorToken(error_token) ==
    /\ Len(error_token) > 1
    /\ Len(error_token) <= MAX_TOKEN_LENGTH
    /\ (error_token \in ERROR_TOKENS \/ error_token[1] = 88)

\* The outcomes of a call: an exception or a returned value.
Threw(err) == [threw |-> err]
Returned(v) == [returned |-> v]
HasThrown(res) == "threw" \in DOMAIN res
HasReturned(res) == "returned" \in DOMAIN res

\* parseUserid with the userid trimmed like the other fields.
parseUseridTrimmed(arr, response, str) ==
    LET foo == Split(str, 44)
        opsys == Trim(foo[1])
        withOpsys == response @@ [opsys |-> opsys]
    IN  IF ~isValidOS(opsys) THEN Threw(INVALID_OPSYS_RESPONSE)
        ELSE IF Len(foo) > 1 /\ foo[2] # <<>>
        THEN LET withCharset == withOpsys @@ [charset |-> Trim(foo[2])]
             IN  IF ~isValidCharset(opsys) THEN Threw(INVALID_CHARSET_RESPONSE)
                 ELSE Returned(withCharset @@
                          [userid |-> IF Len(arr) > 3 THEN JSBuffer(arr[4])
                                                      ELSE JSUndefined])
        ELSE IF Len(arr) <= 3 THEN Threw(TYPE_ERROR)
        ELSE LET userid == Trim(defaultDecode(arr[4]))
             IN  IF ~isValidUserID(userid) THEN Threw(INVALID_USERID_LENGTH)
                 ELSE Returned(withOpsys @@ [userid |-> JSString(userid)])

\* The USERID branch of parseResponse: response holds the ports and the
\* status, str the trimmed third piece.
parseUserid(arr, response, str) ==
    LET foo == Split(str, 44)
        opsys == Trim(foo[1])
        withOpsys == response @@ [opsys |-> opsys]
    IN  IF ~isValidOS(opsys) THEN Threw(INVALID_OPSYS_RESPONSE)
        ELSE IF Len(foo) > 1 /\ foo[2] # <<>>
        THEN LET withCharset == withOpsys @@ [charset |-> Trim(foo[2])]
             IN  IF ~isValidCharset(opsys) THEN Threw(INVALID_CHARSET_RESPONSE)
                 ELSE Returned(withCharset @@
                          [userid |-> IF Len(arr) > 3 THEN JSBuffer(arr[4])
                                                      ELSE JSUndefined])
        ELSE IF Len(arr) <= 3 THEN Threw(TYPE_ERROR)
        ELSE LET userid == defaultDecode(arr[4])
             IN  IF ~isValidUserID(userid) THEN Threw(INVALID_USERID_LENGTH)
                 ELSE Returned(withOpsys @@ [userid |-> JSString(userid)])

\* The ERROR branch without the check of the token.
parseErrorAnyToken(response, str) == Returned(response @@ [error |-> str])

\* The ERROR branch of parseResponse.
parseError(response, str) ==
    IF ~isValidErrorToken(str) THEN Threw(INVALID_ERROR_TOKEN)
    ELSE Returned(response @@ [error |-> str])

\* parseResponse: a Response, or the error it throws.  defaultDecode of a
\* piece the line does not have (arr[k] undefined) throws a TypeError; the
\* first three pieces are decoded before the status is looked at.
parseResponse(buff) ==
    LET arr == splitBuffer(buff, COLON)
    IN  IF Len(arr) < 3 THEN Threw(TYPE_ERROR)
        ELSE LET foo == Split(defaultDecode(arr[1]), 44)
                 ports == [server_port |-> parseInt(foo[1]),
                           client_port |-> IF Len(foo) > 1 THEN parseInt(foo[2])
                                                           ELSE NaN]
                 response == ports @@ [status |-> Trim(defaultDecode(arr[2]))]
                 str == Trim(defaultDecode(arr[3]))
             IN  IF response.status = USERID THEN parseUserid(arr, response, str)
                 ELSE IF response.status = ERROR THEN parseError(response, str)
                 ELSE Threw(INVALID_STATUS_RESPONSE)

\* checkOptions without the checks of the two ports.
checkOptionsAddressOnly(opts) ==
    IF "address" \notin DOMAIN opts \/ opts.address = "" THEN Threw(UNDEFINED_ADDRESS)
    ELSE Returned(opts @@ [port |-> 113, abort |-> TRUE])

\* checkOptions: the error it throws, or the options with the defaults applied
\* (?? replaces an undefined field only).  An absent (undefined) field, the
\* empty string and 0 are falsy.
checkOptions(opts) ==
    IF "address" \notin DOMAIN opts \/ opts.address = "" THEN Threw(UNDEFINED_ADDRESS)
    ELSE IF "server_port" \notin DOMAIN opts \/ opts.server_port = 0
    THEN Threw(UNDEFINED_SERVER_PORT)
    ELSE IF "client_port" \notin DOMAIN opts \/ opts.client_port = 0
    THEN Threw(UNDEFINED_LOCAL_PORT)
    ELSE Returned(opts @@ [port |-> 113, abort |-> TRUE])

(***************************************************************************)
(* The promise request() returns.  resolv and reject settle a pending      *)
(* promise and do nothing to a settled one.                                *)
(***************************************************************************)
Pending == [state |-> "pending"]
Fulfilled(v) == [state |-> "fulfilled", value |-> v]
Rejected(err) == [state |-> "rejected", reason |-> err]

\* A resolv that settles again a promise already settled.
ResolveLast(p, v) == Fulfilled(v)

Resolve(p, v) == IF p.state = "pending" THEN Fulfilled(v) ELSE p

Reject(p, err) == IF p.state = "pending" THEN Rejected(err) ELSE p

\* try { resolv(parseResponse(res)) } catch(err) { reject(err) }
Settle(p, res) ==
    LET outcome == parseResponse(res)
    IN  IF HasThrown(outcome) THEN Reject(p, outcome.threw)
        ELSE Resolve(p, outcome.returned)

\* An 'error' handler that does not reject.
onErrorIgnored(p, err) == p

\* The handler of the socket's 'error' event: reject(err).
onError(p, err) == Reject(p, err)

\* The abort branch taken at the threshold already.
shouldAbortAtThreshold(opts, buff) ==
    opts.abort /\ Len(buff) >= ABORT_CONNECTION_LENGTH

\* The condition of the abort branch of the onread callback.
shouldAbort(opts, buff) ==
    opts.abort /\ Len(buff) > ABORT_CONNECTION_LENGTH

(***************************************************************************)
(* Bounds of the model.                                                    *)
(***************************************************************************)
\* The socket delivers 1..SmallChunk, BigChunk or READ_BUFFER_LENGTH bytes at a time.
SmallChunk == 2
BigChunk == 250
\* The longest unterminated reply is ABORT_CONNECTION_LENGTH + MaxOver bytes.
MaxOver == 1

ChunkSizes == (1..SmallChunk) \cup {BigChunk, READ_BUFFER_LENGTH}

Filler(n) == [i \in 1..n |-> 97]

Join(a, b) == a \o <<COLON>> \o b

\* Reply lines, without their terminator.
LineStjohns ==  \* "6193, 23 : USERID : UNIX : stjohns"
    <<54,49,57,51,44,32,50,51,32,58,32,85,83,69,82,73,68,32,58,32,85,78,73,88,32,
      58,32,115,116,106,111,104,110,115>>
LineNoUser ==  \* "1,2:ERROR:NO-USER"
    <<49,44,50,58,69,82,82,79,82,58,78,79,45,85,83,69,82>>
LineHidden ==  \* "3,4:ERROR:HIDDEN-USER"
    <<51,44,52,58,69,82,82,79,82,58,72,73,68,68,69,78,45,85,83,69,82>>
LineFoobar ==  \* "1,2:FOOBAR:x"
    <<49,44,50,58,70,79,79,66,65,82,58,120>>
LineLoneCR ==  \* "1,2:ERROR:" CR "NO-USER"
    <<49,44,50,58,69,82,82,79,82,58,13,78,79,45,85,83,69,82>>
LineLoneLF ==  \* LF "1,2:ERROR:NO-USER"
    <<10,49,44,50,58,69,82,82,79,82,58,78,79,45,85,83,69,82>>
LinePartial ==  \* "1,2:USERID:UNIX"
    <<49,44,50,58,85,83,69,82,73,68,58,85,78,73,88>>

\* What a peer may send before it closes or stalls.
Streams ==
    { <<>>,
      LinePartial,
      LineStjohns \o EOL,
      LineNoUser \o EOL \o <<88, 89>>,
      LineNoUser \o EOL \o LineHidden \o EOL,
      LineFoobar \o EOL,
      LineLoneCR \o EOL,
      LineLoneLF \o EOL,
      Filler(ABORT_CONNECTION_LENGTH) \o EOL }
    \cup { Filler(ABORT_CONNECTION_LENGTH + k) : k \in 0..MaxOver }
    \cup { LineNoUser \o EOL \o Filler(ABORT_CONNECTION_LENGTH + k) : k \in 0..MaxOver }

SockErrors == {"ECONNREFUSED", "ECONNRESET"}

\* The options a caller may pass: every subset of the fields of a full
\* Options object (port is left out, so the default applies), the falsy
\* values of the required fields, and another pair of ports.
FullOptions(abort) ==
    [address |-> "172.26.41.85", server_port |-> 39904, client_port |-> 4444,
     abort |-> abort]

Restrict(f, keys) == [k \in keys |-> f[k]]

OptionChoices ==
    { Restrict(FullOptions(b), keys) :
        b \in BOOLEAN,
        keys \in SUBSET {"address", "server_port", "client_port", "abort"} }
    \cup { [FullOptions(TRUE) EXCEPT !.address = ""],
           [FullOptions(TRUE) EXCEPT !.server_port = 0],
           [FullOptions(TRUE) EXCEPT !.client_port = 0],
           [FullOptions(TRUE) EXCEPT !.server_port = 6193, !.client_port = 23] }

(***************************************************************************)
(* The requests: one action per call and per socket event.                 *)
(***************************************************************************)
Requests == DOMAIN called

NotParsed == [called |-> FALSE]
NotSearched == [called |-> FALSE]

InitRequests(ids) ==
    /\ options \in [ids -> OptionChoices]
    /\ called = [r \in ids |-> FALSE]
    /\ promise = [r \in ids |-> Pending]
    /\ sock = [r \in ids |-> "none"]
    /\ connections = [r \in ids |-> 0]
    /\ written = [r \in ids |-> <<>>]
    /\ data = [r \in ids |-> <<>>]
    /\ handed = [r \in ids |-> <<>>]
    /\ stream = [r \in ids |-> <<>>]
    /\ sockErr = [r \in ids |-> "none"]
    /\ uncaught = "none"

Init ==
    /\ InitRequests({1})
    /\ line = <<>>
    /\ parsed = NotParsed
    /\ eol = NotSearched

\* request(options): checkOptions, then the executor of the promise creates
\* the socket.  The function is async: what checkOptions throws rejects the
\* promise it returns.
Request(r) ==
    /\ uncaught = "none"
    /\ ~called[r]
    /\ called' = [called EXCEPT ![r] = TRUE]
    /\ LET checked == checkOptions(options[r])
       IN  IF HasThrown(checked)
           THEN /\ promise' = [promise EXCEPT ![r] = Rejected(checked.threw)]
                /\ UNCHANGED <<options, sock, connections>>
           ELSE /\ options' = [options EXCEPT ![r] = checked.returned]
                /\ sock' = [sock EXCEPT ![r] = "connecting"]
                /\ connections' = [connections EXCEPT ![r] = @ + 1]
                /\ UNCHANGED promise
    /\ UNCHANGED <<written, data, handed, stream, sockErr, uncaught, line, parsed, eol>>

\* The 'connect' event: the request line is written.  The peer then sends
\* one of peers.
ConnectTo(r, peers) ==
    /\ uncaught = "none"
    /\ sock[r] = "connecting"
    /\ sock' = [sock EXCEPT ![r] = "open"]
    /\ written' = [written EXCEPT ![r] =
           Append(@, buildRequest(options[r].server_port, options[r].client_port))]
    /\ \E s \in peers : stream' = [stream EXCEPT ![r] = s]
    /\ UNCHANGED <<options, called, promise, connections, data, handed, sockErr,
                   uncaught, line, parsed, eol>>

Connect(r) == ConnectTo(r, Streams)

\* The onread callback, given the next nread bytes of the peer's stream.
\* sock.end() closes the writing side only: the callback still runs for what
\* the peer sends afterwards.  The error of the abort branch is thrown out of
\* the callback, which the socket calls: nothing catches it.
Data(r, nread) ==
    /\ uncaught = "none"
    /\ sock[r] \in {"open", "ended"}
    /\ nread <= READ_BUFFER_LENGTH
    /\ nread <= Len(stream[r])
    /\ stream' = [stream EXCEPT ![r] = Subarray(@, nread, Len(@))]
    /\ LET buff == Subarray(stream[r], 0, nread)
           all == data[r] \o buff
           index == isEOL(all)
       IN  IF index # -1
           THEN LET res == Subarray(all, 0, index)
                IN  /\ data' = [data EXCEPT ![r] = Subarray(all, index + 2, Len(all))]
                    /\ sock' = [sock EXCEPT ![r] = "ended"]
                    /\ handed' = [handed EXCEPT ![r] = Append(@, res)]
                    /\ promise' = [promise EXCEPT ![r] = Settle(@, res)]
                    /\ UNCHANGED uncaught
           ELSE IF shouldAbort(options[r], all)
           THEN /\ data' = [data EXCEPT ![r] = all]
                /\ sock' = [sock EXCEPT ![r] = "destroyed"]
                /\ uncaught' = INVALID_RESPONSE_LENGTH
                /\ UNCHANGED <<handed, promise>>
           ELSE /\ data' = [data EXCEPT ![r] = all]
                /\ UNCHANGED <<sock, handed, promise, uncaught>>
    /\ UNCHANGED <<options, called, connections, written, sockErr, line, parsed, eol>>

\* The 'error' event: reject(err).  The socket is destroyed after it.
SockError(r, err) ==
    /\ uncaught = "none"
    /\ sock[r] \in {"connecting", "open", "ended"}
    /\ sockErr' = [sockErr EXCEPT ![r] = err]
    /\ promise' = [promise EXCEPT ![r] = onError(@, err)]
    /\ sock' = [sock EXCEPT ![r] = "failed"]
    /\ UNCHANGED <<options, called, connections, written, data, handed, stream,
                   uncaught, line, parsed, eol>>

\* The peer closes after all it sent was delivered: 'end' and 'close' are
\* emitted, and no handler is registered for either.
PeerEnd(r) ==
    /\ uncaught = "none"
    /\ sock[r] \in {"open", "ended"}
    /\ stream[r] = <<>>
    /\ sock' = [sock EXCEPT ![r] = "closed"]
    /\ UNCHANGED <<options, called, promise, connections, written, data, handed,
                   stream, sockErr, uncaught, line, parsed, eol>>

Next ==
    \/ \E r \in Requests : Request(r)
    \/ \E r \in Requests : Connect(r)
    \/ \E r \in Requests, nread \in ChunkSizes : Data(r, nread)
    \/ \E r \in Requests, err \in SockErrors : SockError(r, err)
    \/ \E r \in Requests : PeerEnd(r)

Spec == Init /\ [][Next]_vars

(***************************************************************************)
(* Two simultaneous requests in one process.  Each peer sends one of       *)
(* TwoStreams, and a socket delivers all it has, READ_BUFFER_LENGTH bytes  *)
(* at most, in one data event.                                             *)
(***************************************************************************)
TwoStreams ==
    { LineNoUser \o EOL,
      LineFoobar \o EOL,
      Filler(ABORT_CONNECTION_LENGTH + MaxOver) }

InitTwo ==
    /\ InitRequests({1, 2})
    /\ \A r \in Requests : options[r] = FullOptions(TRUE)
    /\ line = <<>>
    /\ parsed = NotParsed
    /\ eol = NotSearched

NextTwo ==
    \/ \E r \in Requests : Request(r)
    \/ \E r \in Requests : ConnectTo(r, TwoStreams)
    \/ \E r \in Requests :
          stream[r] # <<>> /\ Data(r, Min({READ_BUFFER_LENGTH, Len(stream[r])}))
    \/ \E r \in Requests, err \in SockErrors : SockError(r, err)
    \/ \E r \in Requests : PeerEnd(r)

SpecTwo == InitTwo /\ [][NextTwo]_vars

(***************************************************************************)
(* Two requests whose peers send the same bytes, one of ChunkStreams.  The *)
(* socket of request 1 delivers all it has, READ_BUFFER_LENGTH bytes at    *)
(* most, in one data event; the socket of request 2 delivers them in any   *)
(* chunks of ChunkSizes.  No socket fails.                                 *)
(***************************************************************************)
\* buff followed by spaces up to n bytes.
PadEnd(buff, n) == buff \o [i \in 1..(n - Len(buff)) |-> 32]

\* "1,2:ERROR:NO-USER" CR LF, and the same reply with spaces before the
\* terminator, which then lies around offset ABORT_CONNECTION_LENGTH.
ChunkStreams ==
    { LineNoUser \o EOL }
    \cup { PadEnd(LineNoUser, ABORT_CONNECTION_LENGTH - 1 + k) \o EOL : k \in 0..MaxOver }

\* All the peer of request r has sent: the lines handed to the parser with
\* their terminators, the accumulated buffer, and what is not yet delivered.
RECURSIVE Terminated(_)
Terminated(lines) ==
    IF lines = <<>> THEN <<>> ELSE Head(lines) \o EOL \o Terminated(Tail(lines))
Sent(r) == Terminated(handed[r]) \o data[r] \o stream[r]

\* What the peer of request r sends: what the peer of a request connected
\* before it sends, one of ChunkStreams when there is none.
SamePeers(r) ==
    LET connected == {q \in Requests \ {r} : written[q] # <<>>}
    IN  IF connected = {} THEN ChunkStreams ELSE {Sent(q) : q \in connected}

FullReads == {1}

InitChunk ==
    /\ InitRequests({1, 2})
    /\ \A r \in Requests : options[r] = FullOptions(TRUE)
    /\ line = <<>>
    /\ parsed = NotParsed
    /\ eol = NotSearched

NextChunk ==
    \/ \E r \in Requests : Request(r)
    \/ \E r \in Requests : ConnectTo(r, SamePeers(r))
    \/ \E r \in FullReads :
          stream[r] # <<>> /\ Data(r, Min({READ_BUFFER_LENGTH, Len(stream[r])}))
    \/ \E r \in Requests \ FullReads, nread \in ChunkSizes : Data(r, nread)
    \/ \E r \in Requests : PeerEnd(r)

SpecChunk == InitChunk /\ [][NextChunk]_vars

(***************************************************************************)
(* parseResponse alone: it is called on one of ReplyLines.                 *)
(***************************************************************************)
\* The longest userid, and the longest error token beginning with "X", exceed
\* MAX_USERID_LENGTH and MAX_TOKEN_LENGTH by these.
MaxUseridOver == 1
MaxTokenOver == 1

PortPairs ==
    { <<54,49,57,51,44,32,50,51,32>>,                           \* "6193, 23 "
      <<49,44,50>>,                                             \* "1,2"
      <<49>>,                                                   \* "1"
      <<120,44,50>> }                                           \* "x,2"

StatusFields ==
    { <<32,85,83,69,82,73,68,32>>,                              \* " USERID "
      USERID,
      ERROR,
      <<70,79,79,66,65,82>> }                                   \* "FOOBAR"

\* The third piece: an opsys field or an error token.
ThirdFields ==
    { <<32,85,78,73,88,32>>,                                    \* " UNIX "
      UNIX,
      OTHER_OPSYS,
      <<85,78,73,88,44>>,                                       \* "UNIX,"
      <<85,78,73,88,44,85,83,45,65,83,67,73,73>>,               \* "UNIX,US-ASCII"
      <<79,84,72,69,82,44,85,83,45,65,83,67,73,73>>,            \* "OTHER,US-ASCII"
      <<85,78,73,88,44,75,76,73,78,71,79,78>>,                  \* "UNIX,KLINGON"
      <<85,83,45,65,83,67,73,73,44,85,83,45,65,83,67,73,73>>,   \* "US-ASCII,US-ASCII"
      <<66,79,71,85,83>>,                                       \* "BOGUS"
      <<66,79,71,85,83,44,75,76,73,78,71,79,78>>,               \* "BOGUS,KLINGON"
      <<32,78,79,45,85,83,69,82>>,                              \* " NO-USER"
      <<88,99,117,115,116,111,109,45,116,111,107,101,110>>,     \* "Xcustom-token"
      <<88>>,                                                   \* "X"
      <<89,45,84,79,75,69,78>>,                                 \* "Y-TOKEN"
      <<>> }
    \cup ERROR_TOKENS
    \cup { <<88>> \o Filler(MAX_TOKEN_LENGTH - 1 + k) : k \in 0..MaxTokenOver }

\* The rest of the line after the third colon.
UseridFields ==
    { <<32,115,116,106,111,104,110,115>>,                       \* " stjohns"
      <<98,111,98>>,                                            \* "bob"
      <<32,98,111,98,32>>,                                      \* " bob "
      <<97,58,98>>,                                             \* "a:b"
      <<58,98>>,                                                \* ":b"
      <<>> }
    \cup { Filler(MAX_USERID_LENGTH + k) : k \in 0..MaxUseridOver }

ReplyLines ==
    { <<>> }
    \cup PortPairs
    \cup { Join(p, s) : p \in PortPairs, s \in StatusFields }
    \cup { Join(Join(p, s), t) : p \in PortPairs, s \in StatusFields, t \in ThirdFields }
    \cup { Join(Join(Join(p, s), t), u) :
             p \in PortPairs, s \in StatusFields, t \in ThirdFields, u \in UseridFields }

InitParse ==
    /\ InitRequests({})
    /\ line \in ReplyLines
    /\ parsed = NotParsed
    /\ eol = NotSearched

Parse ==
    /\ parsed = NotParsed
    /\ parsed' = parseResponse(line)
    /\ UNCHANGED <<connVars, line, eol>>

NextParse == Parse

SpecParse == InitParse /\ [][NextParse]_vars

(***************************************************************************)
(* isEOL alone: it is called on one of Buffers, every buffer of at most    *)
(* MaxBufferLength bytes that are each a CR, an LF or an "a".              *)
(***************************************************************************)
MaxBufferLength == 5

Buffers == UNION { [1..n -> {CR, LF, 97}] : n \in 0..MaxBufferLength }

InitEOL ==
    /\ InitRequests({})
    /\ line \in Buffers
    /\ parsed = NotParsed
    /\ eol = NotSearched

FindEOL ==
    /\ eol = NotSearched
    /\ eol' = Returned(isEOL(line))
    /\ UNCHANGED <<connVars, line, parsed>>

NextEOL == FindEOL

SpecEOL == InitEOL /\ [][NextEOL]_vars

(***************************************************************************)
(* The claims.                                                             *)
(***************************************************************************)
\* Whether a buffer holds a CR immediately followed by an LF, and the 0-based
\* offset of the first such pair.
HasCRLF(buff) == \E i \in 1..(Len(buff) - 1) : buff[i] = CR /\ buff[i + 1] = LF
FirstCRLF(buff) ==
    Min({i \in 1..(Len(buff) - 1) : buff[i] = CR /\ buff[i + 1] = LF}) - 1

\* The bytes of buff after its n-th occurrence of char (after none of them
\* when n = 0); empty when there is no n-th occurrence.
RECURSIVE RestAfter(_, _, _)
RestAfter(buff, char, n) ==
    IF n = 0 THEN buff
    ELSE LET i == IndexOf(buff, char)
         IN  IF i = -1 THEN <<>>
             ELSE RestAfter(Subarray(buff, i + 1, Len(buff)), char, n - 1)

\* How many times char occurs in buff.
Occurrences(buff, char) == Cardinality({i \in 1..Len(buff) : buff[i] = char})

\* The k-th (0-based, k < 3) piece of a line cut at its first three colons.
Piece(buff, k) ==
    LET rest == RestAfter(buff, COLON, k)
        i == IndexOf(rest, COLON)
    IN  IF i = -1 THEN rest ELSE Subarray(rest, 0, i)

\* C1: with abort enabled, whenever a data event leaves the accumulated
\* buffer without a terminator and longer than ABORT_CONNECTION_LENGTH, the
\* socket is destroyed and the pending request is rejected with
\* INVALID_RESPONSE_LENGTH.
C1_AbortRejectsRequest ==
    \A r \in Requests :
        ( /\ "abort" \in DOMAIN options[r]
          /\ options[r].abort
          /\ isEOL(data[r]) = -1
          /\ Len(data[r]) > ABORT_CONNECTION_LENGTH )
        => /\ sock[r] = "destroyed"
           /\ promise[r].state # "pending"
           /\ handed[r] = <<>> => promise[r] = Rejected(INVALID_RESPONSE_LENGTH)

\* A Response with the fields of exactly one of its two shapes.
IsPopulatedResponse(v) ==
    /\ {"server_port", "client_port", "status"} \subseteq DOMAIN v
    /\ \/ v.status = USERID /\ {"opsys", "userid"} \subseteq DOMAIN v
       \/ v.status = ERROR /\ "error" \in DOMAIN v

\* C2: the promise of a request is settled at most once (a settled promise
\* never changes, so it never holds a Response and an error both), and it is
\* never fulfilled with an empty Response.
C2_AtMostOneOutcome ==
    /\ [](\A r \in Requests :
            promise[r].state = "fulfilled" => IsPopulatedResponse(promise[r].value))
    /\ [][\A r \in Requests :
            promise[r].state # "pending" => promise'[r] = promise[r]]_vars

\* C2's case: a request whose promise is fulfilled and whose callback has
\* parsed a second line since.
C2_Witness ==
    \E r \in Requests : promise[r].state = "fulfilled" /\ Len(handed[r]) >= 2

\* C3: whenever the buffer a data event accumulates holds a CR immediately
\* followed by an LF, the bytes before the first such pair are handed to the
\* parser.
C3_TerminatorAtFirstCRLF ==
    [][\A r \in Requests :
         Len(stream'[r]) < Len(stream[r]) =>
            LET nread == Len(stream[r]) - Len(stream'[r])
                all == data[r] \o Subarray(stream[r], 0, nread)
            IN  HasCRLF(all) =>
                   handed'[r] = Append(handed[r], Subarray(all, 0, FirstCRLF(all)))]_vars

\* C4: a request whose peer closed the connection, gracefully or by a reset,
\* before any reply line was found does not stay pending.
C4_PrematureCloseSettles ==
    \A r \in Requests :
        (sock[r] \in {"closed", "failed"} /\ handed[r] = <<>>)
            => promise[r].state # "pending"

\* The configuration errors of the required fields an Options object lacks.
MissingErrors(opts) ==
    (IF "address" \in DOMAIN opts THEN {} ELSE {UNDEFINED_ADDRESS})
        \cup (IF "server_port" \in DOMAIN opts THEN {} ELSE {UNDEFINED_SERVER_PORT})
        \cup (IF "client_port" \in DOMAIN opts THEN {} ELSE {UNDEFINED_LOCAL_PORT})

\* C5: a request called without address, server_port or client_port is
\* rejected with the error of a missing field, and no socket is created,
\* nothing connects and nothing is written.
C5_ConfigErrorBeforeIO ==
    \A r \in Requests :
        (called[r] /\ MissingErrors(options[r]) # {})
            => /\ promise[r].state = "rejected"
               /\ promise[r].reason \in MissingErrors(options[r])
               /\ sock[r] = "none"
               /\ connections[r] = 0
               /\ written[r] = <<>>

\* C5's case: a call without client_port alone.
C5_Witness ==
    \E r \in Requests :
        /\ called[r]
        /\ MissingErrors(options[r]) = {UNDEFINED_LOCAL_PORT}
        /\ promise[r] = Rejected(UNDEFINED_LOCAL_PORT)

\* C6: a request that passed checkOptions has created exactly one connection,
\* whatever happened since; a socket error before any reply line was found
\* rejects the request with that very error, and the socket stays failed.
C6_OneConnectionErrorUnchanged ==
    \A r \in Requests :
        /\ connections[r] = IF sock[r] = "none" THEN 0 ELSE 1
        /\ sockErr[r] # "none" =>
              /\ sock[r] = "failed"
              /\ handed[r] = <<>> => promise[r] = Rejected(sockErr[r])

\* C6's case: an error while awaiting the reply, after part of it arrived.
C6_Witness ==
    \E r \in Requests :
        /\ sockErr[r] = "ECONNRESET"
        /\ written[r] # <<>>
        /\ data[r] # <<>>
        /\ handed[r] = <<>>
        /\ promise[r] = Rejected("ECONNRESET")

StjohnsResponse(userid) ==
    [server_port |-> Number(6193), client_port |-> Number(23), status |-> USERID,
     opsys |-> UNIX, userid |-> JSString(userid)]

\* C8 as stated: the userid of "6193, 23 : USERID : UNIX : stjohns" is "stjohns".
C8_StjohnsWithoutSpace ==
    (line = LineStjohns /\ parsed # NotParsed)
        => parsed = Returned(StjohnsResponse(<<115,116,106,111,104,110,115>>))

\* C8, amended: parsing "6193, 23 : USERID : UNIX : stjohns" returns
\* server_port 6193, client_port 23, status "USERID", opsys "UNIX" and the
\* userid " stjohns", the space after the colon kept, with no charset and no
\* error field.
C8_StjohnsParsed ==
    (line = LineStjohns /\ parsed # NotParsed)
        => parsed = Returned(StjohnsResponse(<<32,115,116,106,111,104,110,115>>))

\* C8's case: that line has been parsed and a Response returned.
C8_Witness == line = LineStjohns /\ HasReturned(parsed)

\* C9: the string userid of a returned USERID Response is all that follows
\* the third colon of the line, further colons included.
C9_UseridKeepsColons ==
    ( /\ HasReturned(parsed)
      /\ parsed.returned.status = USERID
      /\ parsed.returned.userid.type = "string" )
        => parsed.returned.userid.val = defaultDecode(RestAfter(line, COLON, 3))

\* C10: for a USERID line with a valid opsys, a charset sub-field and a
\* userid, parsing returns the charset and the raw bytes of the userid when
\* the charset is a known one, and throws INVALID_CHARSET_RESPONSE when not.
C10_CharsetDecides ==
    LET field == Split(Trim(defaultDecode(Piece(line, 2))), 44)
        opsys == Trim(field[1])
        charset == Trim(field[2])
        userid == RestAfter(line, COLON, 3)
    IN  ( /\ parsed # NotParsed
          /\ Occurrences(line, COLON) = 3
          /\ Trim(defaultDecode(Piece(line, 1))) = USERID
          /\ isValidOS(opsys)
          /\ Len(field) > 1
          /\ field[2] # <<>>
          /\ userid # <<>> )
        => IF charset \in CHARSETS
           THEN /\ HasReturned(parsed)
                /\ parsed.returned.opsys = opsys
                /\ parsed.returned.charset = charset
                /\ parsed.returned.userid = JSBuffer(userid)
           ELSE parsed = Threw(INVALID_CHARSET_RESPONSE)

\* C11: a line whose trimmed status is neither "USERID" nor "ERROR" fails
\* with INVALID_STATUS_RESPONSE, whatever follows the status, nothing at all
\* included.
C11_OtherStatusIsInvalid ==
    ( /\ parsed # NotParsed
      /\ Occurrences(line, COLON) >= 1
      /\ Trim(defaultDecode(Piece(line, 1))) \notin {USERID, ERROR} )
        => parsed = Threw(INVALID_STATUS_RESPONSE)

\* C12: for a USERID line with a valid opsys, no charset and a userid
\* without a colon, a userid of 1 to MAX_USERID_LENGTH bytes is accepted, and
\* a longer one or an empty one (nothing after the third colon) fails with
\* INVALID_USERID_LENGTH.
C12_UseridLengthDecides ==
    LET field == Trim(defaultDecode(Piece(line, 2)))
        userid == RestAfter(line, COLON, 3)
    IN  ( /\ parsed # NotParsed
          /\ Occurrences(line, COLON) = 3
          /\ Trim(defaultDecode(Piece(line, 1))) = USERID
          /\ IndexOf(field, 44) = -1
          /\ (field = OTHER_OPSYS \/ field \in OPSYS) )
        => IF Len(userid) >= 1 /\ Len(userid) <= MAX_USERID_LENGTH
           THEN /\ HasReturned(parsed)
                /\ parsed.returned.userid = JSString(defaultDecode(userid))
           ELSE parsed = Threw(INVALID_USERID_LENGTH)

\* C13: for an ERROR line the trimmed error token is accepted exactly when it
\* is one of ERROR_TOKENS or has 2 to MAX_TOKEN_LENGTH characters and begins
\* with "X"; every other token fails with INVALID_ERROR_TOKEN.
C13_ErrorTokenDecides ==
    LET token == Trim(defaultDecode(Piece(line, 2)))
    IN  ( /\ parsed # NotParsed
          /\ Occurrences(line, COLON) >= 2
          /\ Trim(defaultDecode(Piece(line, 1))) = ERROR )
        => IF \/ token \in ERROR_TOKENS
              \/ Len(token) >= 2 /\ Len(token) <= MAX_TOKEN_LENGTH /\ token[1] = 88
           THEN /\ HasReturned(parsed)
                /\ parsed.returned.error = token
           ELSE parsed = Threw(INVALID_ERROR_TOKEN)

\* C14: once a terminator has been found and the line before it handed to
\* the parser, what follows the terminator and what arrives later is thrown
\* away: no second line is handed to the parser, the abort branch is not
\* taken, nothing is thrown and the outcome does not change.
C14_CompleteIsTerminal ==
    [][\A r \in Requests :
         handed[r] # <<>> =>
            /\ handed'[r] = handed[r]
            /\ sock'[r] # "destroyed"
            /\ uncaught' = uncaught
            /\ promise'[r] = promise[r]]_vars

\* C15: isEOL returns an index i other than -1 only when byte i of the
\* buffer is a CR and byte i + 1 is an LF; a buffer without a CR immediately
\* followed by an LF (a lone CR, a lone LF, a CR and an LF apart, a CR at the
\* end) gives -1.
C15_EOLIsCRThenLF ==
    eol # NotSearched =>
        LET i == eol.returned
        IN  /\ i # -1 => ( /\ i >= 0
                           /\ i + 2 <= Len(line)
                           /\ line[i + 1] = CR
                           /\ line[i + 2] = LF )
            /\ ~HasCRLF(line) => i = -1

\* C15's case: isEOL has found a terminator that is not at the start of the
\* buffer and has bytes after it.
C15_Witness ==
    /\ HasReturned(eol)
    /\ eol.returned > 0
    /\ eol.returned + 2 < Len(line)

\* Whether s is the decimal numeral of the natural number n: digits only, no
\* leading zero, of value n.
IsDecimalOf(s, n) ==
    /\ s # <<>>
    /\ \A i \in 1..Len(s) : s[i] \in 48..57
    /\ Len(s) > 1 => s[1] # 48
    /\ DigitsValue(s, 10, 0) = n

\* Whether w is: the decimal server_port, a comma, one space, the decimal
\* client_port, CR, LF.
IsRequestLine(w, server_port, client_port) ==
    LET c == IndexOf(w, 44)
        n == Len(w)
    IN  /\ c # -1
        /\ n >= c + 5
        /\ w[c + 2] = 32
        /\ IsDecimalOf(Subarray(w, 0, c), server_port)
        /\ IsDecimalOf(Subarray(w, c + 2, n - 2), client_port)
        /\ w[n - 1] = CR
        /\ w[n] = LF

\* C16: the request line is written exactly once per request, when the
\* connection is established and before any byte of the reply is processed,
\* and it is the decimal server_port, a comma, one space, the decimal
\* client_port, CR, LF.
C16_RequestLineOnce ==
    /\ [](\A r \in Requests :
            /\ Len(written[r]) <= 1
            /\ sock[r] \in {"none", "connecting"} => written[r] = <<>>
            /\ ( \/ sock[r] \in {"open", "ended", "destroyed", "closed"}
                 \/ data[r] # <<>>
                 \/ handed[r] # <<>> ) => Len(written[r]) = 1
            /\ written[r] # <<>> =>
                  IsRequestLine(written[r][1], options[r].server_port,
                                options[r].client_port))
    /\ [][\A r \in Requests :
            written'[r] # written[r] =>
               /\ sock[r] = "connecting"
               /\ sock'[r] = "open"
               /\ data[r] = <<>>
               /\ handed[r] = <<>>]_vars

\* C16's case: a request whose reply has been processed to its terminator,
\* with the request line written before.
C16_Witness ==
    \E r \in Requests :
        /\ sock[r] = "ended"
        /\ handed[r] # <<>>
        /\ written[r] = << <<54,49,57,51,44,32,50,51,13,10>> >>  \* "6193, 23" CR LF

\* C17: a returned Response has the fields of exactly one branch: with
\* status "USERID" a valid opsys and a defined userid and no error field;
\* with status "ERROR" a valid error token and no opsys, charset or userid.
C17_ResponseOfOneBranch ==
    HasReturned(parsed) =>
        LET v == parsed.returned
        IN  \/ /\ v.status = USERID
               /\ {"opsys", "userid"} \subseteq DOMAIN v
               /\ (v.opsys = OTHER_OPSYS \/ v.opsys \in OPSYS)
               /\ v.userid.type \in {"string", "Buffer"}
               /\ "error" \notin DOMAIN v
            \/ /\ v.status = ERROR
               /\ "error" \in DOMAIN v
               /\ \/ v.error \in ERROR_TOKENS
                  \/ /\ Len(v.error) >= 2
                     /\ Len(v.error) <= MAX_TOKEN_LENGTH
                     /\ v.error[1] = 88
               /\ DOMAIN v \cap {"opsys", "charset", "userid"} = {}

\* C17's case: a USERID Response has been returned.
C17_Witness ==
    /\ HasReturned(parsed)
    /\ parsed.returned.status = USERID
    /\ parsed.returned.opsys = OTHER_OPSYS

\* C18: in a returned Response server_port and client_port are integers that
\* parseInt could read: a line whose port pair lacks a part, or has a part
\* that is no numeral, returns no Response.
C18_PortsAreIntegers ==
    HasReturned(parsed) =>
        /\ ~parsed.returned.server_port.nan
        /\ ~parsed.returned.client_port.nan

\* C19: for a USERID line the trimmed opsys must be "OTHER" or one of OPSYS;
\* any other opsys fails with INVALID_OPSYS_RESPONSE, whatever the charset
\* and the userid are, and a valid one never does.
C19_OpsysCheckedFirst ==
    LET opsys == Trim(Split(Trim(defaultDecode(Piece(line, 2))), 44)[1])
    IN  ( /\ parsed # NotParsed
          /\ Occurrences(line, COLON) >= 2
          /\ Trim(defaultDecode(Piece(line, 1))) = USERID )
        => IF opsys = OTHER_OPSYS \/ opsys \in OPSYS
           THEN parsed # Threw(INVALID_OPSYS_RESPONSE)
           ELSE parsed = Threw(INVALID_OPSYS_RESPONSE)

\* C20: the userid is never trimmed: the userid of a returned USERID
\* Response is, byte for byte, all that follows the third colon of the line,
\* leading and trailing spaces included.
C20_UseridByteForByte ==
    ( /\ HasReturned(parsed)
      /\ parsed.returned.status = USERID )
        => parsed.returned.userid.val = RestAfter(line, COLON, 3)

\* All that belongs to request r: its options, promise, socket and buffers.
RequestState(r) ==
    <<options[r], called[r], promise[r], sock[r], connections[r], written[r],
      data[r], handed[r], stream[r], sockErr[r]>>

\* C21: simultaneous requests are independent: no event of one request
\* changes what belongs to another, and a request goes on as it would alone,
\* whatever the others did: a socket with bytes to deliver delivers them, and
\* a socket that has delivered all can be closed by its peer.
C21_RequestsIndependent ==
    /\ [][\A r, q \in Requests :
            (r # q /\ RequestState(r)' # RequestState(r))
               => RequestState(q)' = RequestState(q)]_vars
    /\ [](\A r \in Requests :
            sock[r] \in {"open", "ended"} =>
               IF stream[r] # <<>> THEN ENABLED Data(r, 1) ELSE ENABLED PeerEnd(r))

\* How request r ended: its settled promise; "aborted" when the abort branch
\* destroyed its socket with the promise pending; pending when it has not.
Outcome(r) ==
    IF promise[r].state # "pending" THEN promise[r]
    ELSE IF sock[r] = "destroyed" THEN [state |-> "aborted"]
    ELSE Pending

\* C22: the outcome of a request depends on the bytes its peer sends and not
\* on the chunks they are read in: two requests with the same options whose
\* peers send the same bytes, once both have ended, have ended alike.
C22_ChunkingIndependent ==
    \A r, q \in Requests :
        ( /\ written[r] # <<>>
          /\ written[q] # <<>>
          /\ options[r] = options[q]
          /\ Sent(r) = Sent(q)
          /\ Outcome(r) # Pending
          /\ Outcome(q) # Pending )
        => Outcome(r) = Outcome(q)

====
